---------------------------- MODULE Spec2Model ----------------------------
(***************************************************************************)
(* A model of the skip list of src/lib.rs: a heap of nodes addressed by    *)
(* pointers, the SkipList struct (len, head), the three iterators, and one *)
(* action per public operation.  Option<T> is a sequence of length 0 or 1: *)
(* <<>> is None and <<x>> is Some(x); a null/absent pointer is None == 0.  *)
(***************************************************************************)
EXTENDS Integers, Sequences, FiniteSets, TLC

\* MAX_LEVEL is 32 in the source (lib.rs:3); the model scales it down, so that
\* entry nodes spanning every level of the head occur.
MAX_LEVEL == 2
\* Largest key, largest value, and the largest number of consecutive
\* successful coin flips the random source is asked for.
MaxKey == 2
MaxVal == 2
MaxDraw == 2

Keys == 1..MaxKey
Values == 1..MaxVal
Draws == 0..MaxDraw
ListIds == {1, 2}
\* The heap never runs out: room for two containers (a head and MaxKey entry
\* nodes each) and one node more.
NumNodes == 2 * (MaxKey + 1) + 1
NodeIds == 1..NumNodes
None == 0

VARIABLES
    nodes,   \* the heap: NodeIds -> Node (or FreeNode when not allocated)
    lists,   \* ListIds -> SkipList struct [len, head]; head = None: no container
    it,      \* the iterator in use, if any
    last,    \* the last call made and what it returned
    shadow   \* ListIds -> (Keys -> Option<value last written for the key>)

vars == <<nodes, lists, it, last, shadow>>

-----------------------------------------------------------------------------
\* Data, Node

Data(key, value) == [key |-> key, value |-> value]

\* Mutant: the pair is built in the wrong order.
Data_into_swapped(d) == <<d.value, d.key>>

\* impl Into<(K, V)> for Data<K, V>
Data_into(d) == <<d.key, d.value>>

FreeNode == [live |-> FALSE, data |-> <<>>, forward |-> <<>>]

Node_new(data, lvl) ==
    [live |-> TRUE, data |-> data, forward |-> [i \in 0..lvl |-> None]]

Node_head == Node_new(<<>>, MAX_LEVEL - 1)

level(n) == Cardinality(DOMAIN n.forward) - 1

\* Box::new: the allocator hands out the lowest free address.
Alloc(h) == CHOOSE n \in NodeIds : ~h[n].live /\ \A m \in NodeIds : ~h[m].live => n <= m

HasFree(h) == {n \in NodeIds : ~h[n].live} # {}

\* node.forward[i]
Fwd(h, n, i) == IF i \in DOMAIN h[n].forward THEN h[n].forward[i] ELSE None

\* node.forward[i] = p
SetFwd(h, n, i, p) ==
    IF i \in DOMAIN h[n].forward THEN [h EXCEPT ![n].forward[i] = p] ELSE h

\* Mutant: the search also steps over a node that holds the key itself.
KeyLessEq(h, n, key) == h[n].data # <<>> /\ h[n].data[1].key <= key

\* next_node.data.is_some_and(|d| d.key < key)
KeyLess(h, n, key) == h[n].data # <<>> /\ h[n].data[1].key < key

\* next_node.data.is_some_and(|d| d.key == key)
KeyEq(h, n, key) == h[n].data # <<>> /\ h[n].data[1].key = key

-----------------------------------------------------------------------------
\* random_level: r is the random sample, the number of n >= 1 with P^n > f.

\* Mutant: the loop tests level < MAX_LEVEL, and so may reach MAX_LEVEL.
random_level_up_to_max(r) == IF r < MAX_LEVEL THEN r ELSE MAX_LEVEL

RECURSIVE level_loop(_, _)
level_loop(lvl, r) ==
    IF lvl + 1 <= r /\ lvl + 1 < MAX_LEVEL THEN level_loop(lvl + 1, r) ELSE lvl

random_level(r) == level_loop(0, r)

-----------------------------------------------------------------------------
\* The search loops

\* Mutant: an if in place of the while, the search moves on once at most.
advance_once(h, cur, i, key) ==
    LET next_node == Fwd(h, cur, i) IN
    IF next_node # None /\ KeyLess(h, next_node, key) THEN next_node ELSE cur

\* while let Some(next) = cur.forward[i] { if next.key < key { cur = next } else break }
RECURSIVE advance(_, _, _, _)
advance(h, cur, i, key) ==
    LET next_node == Fwd(h, cur, i) IN
    IF next_node # None /\ KeyLess(h, next_node, key)
    THEN advance(h, next_node, i, key)
    ELSE cur

\* for i in (0..MAX_LEVEL).rev() { advance; update_nodes[i] = cur_node }
RECURSIVE find_update(_, _, _, _, _)
find_update(h, cur, i, key, upd) ==
    LET c == advance(h, cur, i, key)
        u == [upd EXCEPT ![i] = c]
    IN IF i = 0 THEN u ELSE find_update(h, c, i - 1, key, u)

update_nodes(h, head, key) ==
    find_update(h, head, MAX_LEVEL - 1, key, [i \in 0..(MAX_LEVEL - 1) |-> head])

\* the same loop in get / get_mut, which keep only cur_node
RECURSIVE find_node(_, _, _, _)
find_node(h, cur, i, key) ==
    LET c == advance(h, cur, i, key)
    IN IF i = 0 THEN c ELSE find_node(h, c, i - 1, key)

-----------------------------------------------------------------------------
\* insert

\* Mutant: the new node is linked into the level-0 chain only.
splice_level0(h, upd, new_node, i, new_level) ==
    IF i > 0 THEN h
    ELSE SetFwd(SetFwd(h, new_node, 0, Fwd(h, upd[0], 0)), upd[0], 0, new_node)

RECURSIVE splice(_, _, _, _, _)
splice(h, upd, new_node, i, new_level) ==
    IF i > new_level THEN h
    ELSE LET node == upd[i]
             h1 == SetFwd(h, new_node, i, Fwd(h, node, i))
             h2 == SetFwd(h1, node, i, new_node)
         IN splice(h2, upd, new_node, i + 1, new_level)

\* Mutant: an insert over a present key returns the old value but keeps it.
insert_stale(h, sl, key, value, r) ==
    LET upd == update_nodes(h, sl.head, key)
        cur_node == upd[0]
        next_node == Fwd(h, cur_node, 0)
    IN IF next_node # None /\ KeyEq(h, next_node, key)
       THEN [nodes |-> h, sl |-> sl, ret |-> <<h[next_node].data[1].value>>]
       ELSE LET new_level == random_level(r)
                new_node == Alloc(h)
                h1 == [h EXCEPT ![new_node] = Node_new(<<Data(key, value)>>, new_level)]
            IN [nodes |-> splice(h1, upd, new_node, 0, new_level),
                sl |-> [sl EXCEPT !.len = @ + 1],
                ret |-> <<>>]

\* Mutant: an insert over a present key counts as a new entry.
insert_counts_replace(h, sl, key, value, r) ==
    LET upd == update_nodes(h, sl.head, key)
        cur_node == upd[0]
        next_node == Fwd(h, cur_node, 0)
    IN IF next_node # None /\ KeyEq(h, next_node, key)
       THEN [nodes |-> [h EXCEPT ![next_node].data[1].value = value],
             sl |-> [sl EXCEPT !.len = @ + 1],
             ret |-> <<h[next_node].data[1].value>>]
       ELSE LET new_level == random_level(r)
                new_node == Alloc(h)
                h1 == [h EXCEPT ![new_node] = Node_new(<<Data(key, value)>>, new_level)]
            IN [nodes |-> splice(h1, upd, new_node, 0, new_level),
                sl |-> [sl EXCEPT !.len = @ + 1],
                ret |-> <<>>]

\* Mutant: the key found is not compared, a node is spliced in every time.
insert_always_new(h, sl, key, value, r) ==
    LET upd == update_nodes(h, sl.head, key)
        new_level == random_level(r)
        new_node == Alloc(h)
        h1 == [h EXCEPT ![new_node] = Node_new(<<Data(key, value)>>, new_level)]
    IN [nodes |-> splice(h1, upd, new_node, 0, new_level),
        sl |-> [sl EXCEPT !.len = @ + 1],
        ret |-> <<>>]

insert(h, sl, key, value, r) ==
    LET upd == update_nodes(h, sl.head, key)
        cur_node == upd[0]
        next_node == Fwd(h, cur_node, 0)
    IN IF next_node # None /\ KeyEq(h, next_node, key)
       THEN [nodes |-> [h EXCEPT ![next_node].data[1].value = value],
             sl |-> sl,
             ret |-> <<h[next_node].data[1].value>>]
       ELSE LET new_level == random_level(r)
                new_node == Alloc(h)
                h1 == [h EXCEPT ![new_node] = Node_new(<<Data(key, value)>>, new_level)]
            IN [nodes |-> splice(h1, upd, new_node, 0, new_level),
                sl |-> [sl EXCEPT !.len = @ + 1],
                ret |-> <<>>]

-----------------------------------------------------------------------------
\* remove

\* Box::from_raw(ptr) dropped: the node's memory goes back to the allocator
Free(h, n) == [h EXCEPT ![n] = FreeNode]

\* Mutant: the node is unlinked from the level-0 chain only.
unlink_level0(h, upd, del_node, i) ==
    IF i > 0 THEN h ELSE SetFwd(h, upd[0], 0, Fwd(h, del_node, 0))

\* for i in 0..MAX_LEVEL { if update_nodes[i].forward[i] != del_node { break } relink }
RECURSIVE unlink(_, _, _, _)
unlink(h, upd, del_node, i) ==
    IF i >= MAX_LEVEL THEN h
    ELSE LET node == upd[i] IN
         IF Fwd(h, node, i) = None \/ Fwd(h, node, i) # del_node THEN h
         ELSE unlink(SetFwd(h, node, i, Fwd(h, del_node, i)), upd, del_node, i + 1)

\* Mutant: the count is not decremented.
remove_keeps_len(h, sl, key) ==
    LET upd == update_nodes(h, sl.head, key)
        cur_node == upd[0]
        next_node == Fwd(h, cur_node, 0)
    IN IF next_node # None /\ KeyEq(h, next_node, key)
       THEN LET del_node == next_node
                h1 == unlink(h, upd, del_node, 0)
            IN [nodes |-> Free(h1, del_node),
                sl |-> sl,
                ret |-> <<h[del_node].data[1].value>>]
       ELSE [nodes |-> h, sl |-> sl, ret |-> <<>>]

\* Mutant: the level-0 successor is removed whatever its key.
remove_any(h, sl, key) ==
    LET upd == update_nodes(h, sl.head, key)
        cur_node == upd[0]
        next_node == Fwd(h, cur_node, 0)
    IN IF next_node # None
       THEN LET del_node == next_node
                h1 == unlink(h, upd, del_node, 0)
            IN [nodes |-> Free(h1, del_node),
                sl |-> [sl EXCEPT !.len = @ - 1],
                ret |-> <<h[del_node].data[1].value>>]
       ELSE [nodes |-> h, sl |-> sl, ret |-> <<>>]

remove(h, sl, key) ==
    LET upd == update_nodes(h, sl.head, key)
        cur_node == upd[0]
        next_node == Fwd(h, cur_node, 0)
    IN IF next_node # None /\ KeyEq(h, next_node, key)
       THEN LET del_node == next_node
                h1 == unlink(h, upd, del_node, 0)
            IN [nodes |-> Free(h1, del_node),
                sl |-> [sl EXCEPT !.len = @ - 1],
                ret |-> <<h[del_node].data[1].value>>]
       ELSE [nodes |-> h, sl |-> sl, ret |-> <<>>]

-----------------------------------------------------------------------------
\* get, get_mut, len, is_empty

get(h, sl, key) ==
    LET cur_node == find_node(h, sl.head, MAX_LEVEL - 1, key)
        next_node == Fwd(h, cur_node, 0)
    IN IF next_node # None /\ KeyEq(h, next_node, key)
       THEN <<h[next_node].data[1].value>>
       ELSE <<>>

\* Mutant: get_mut hands out the level-0 successor whatever its key.
get_mut_any(h, sl, key) ==
    LET cur_node == find_node(h, sl.head, MAX_LEVEL - 1, key)
        next_node == Fwd(h, cur_node, 0)
    IN IF next_node # None THEN <<next_node>> ELSE <<>>

\* get_mut returns a place: the node whose value the caller may overwrite
get_mut(h, sl, key) ==
    LET cur_node == find_node(h, sl.head, MAX_LEVEL - 1, key)
        next_node == Fwd(h, cur_node, 0)
    IN IF next_node # None /\ KeyEq(h, next_node, key)
       THEN <<next_node>>
       ELSE <<>>

\* *place = value, through a &mut V handed out by get_mut or IterMut::next
WriteValue(h, place, value) == [h EXCEPT ![place].data[1].value = value]

len(sl) == sl.len

is_empty(sl) == sl.len = 0

-----------------------------------------------------------------------------
\* pop_front, clear

\* Mutant: only the level-0 slot of the head is relinked.
relink_head_level0(h, head, del_node, lvl) ==
    IF lvl > 0 THEN h ELSE SetFwd(h, head, 0, Fwd(h, del_node, 0))

RECURSIVE relink_head(_, _, _, _)
relink_head(h, head, del_node, lvl) ==
    IF lvl > level(h[del_node]) THEN h
    ELSE relink_head(SetFwd(h, head, lvl, Fwd(h, del_node, lvl)), head, del_node, lvl + 1)

pop_front(h, sl) ==
    LET next_node == Fwd(h, sl.head, 0) IN
    IF next_node # None
    THEN LET del_node == next_node
             h1 == relink_head(h, sl.head, del_node, 0)
             data == h[del_node].data[1]
         IN [nodes |-> Free(h1, del_node),
             sl |-> [sl EXCEPT !.len = @ - 1],
             ret |-> <<Data_into(data)>>]
    ELSE [nodes |-> h, sl |-> sl, ret |-> <<>>]

\* Mutant: the container is replaced by a new one.
clear_replace(h, sl) ==
    LET head == Alloc(h)
    IN [nodes |-> [h EXCEPT ![head] = Node_head], sl |-> [len |-> 0, head |-> head]]

\* Mutant: the count is reset and the nodes are left where they are.
clear_forget(h, sl) == [nodes |-> h, sl |-> [sl EXCEPT !.len = 0]]

\* while !self.is_empty() { self.pop_front(); }
RECURSIVE clear(_, _)
clear(h, sl) ==
    IF is_empty(sl) THEN [nodes |-> h, sl |-> sl]
    ELSE LET p == pop_front(h, sl) IN clear(p.nodes, p.sl)

-----------------------------------------------------------------------------
\* iter, iter_mut and the next() of Iter and IterMut

iter(h, sl) == Fwd(h, sl.head, 0)

iter_mut(h, sl) == Fwd(h, sl.head, 0)

\* Mutant: the cursor moves along the level-1 link.
Iter_next_level1(h, cursor) ==
    IF cursor # None
    THEN [cursor |-> Fwd(h, cursor, 1),
          node |-> cursor,
          item |-> << <<h[cursor].data[1].key, h[cursor].data[1].value>> >>]
    ELSE [cursor |-> None, node |-> None, item |-> <<>>]

\* Mutant: the cursor is left on the node it has just yielded.
Iter_next_stay(h, cursor) ==
    IF cursor # None
    THEN [cursor |-> cursor,
          node |-> cursor,
          item |-> << <<h[cursor].data[1].key, h[cursor].data[1].value>> >>]
    ELSE [cursor |-> None, node |-> None, item |-> <<>>]

\* the cursor after the call, the node visited, and the item returned
Iter_next(h, cursor) ==
    IF cursor # None
    THEN [cursor |-> Fwd(h, cursor, 0),
          node |-> cursor,
          item |-> << <<h[cursor].data[1].key, h[cursor].data[1].value>> >>]
    ELSE [cursor |-> None, node |-> None, item |-> <<>>]

\* an Iter run until next() returns None: the sequence of items it yields
RECURSIVE collect(_, _)
collect(h, cursor) ==
    LET n == Iter_next(h, cursor)
    IN IF n.item = <<>> THEN <<>> ELSE n.item \o collect(h, n.cursor)

-----------------------------------------------------------------------------
\* new, clone, drop

\* SkipList::new
SkipList_new(h) ==
    LET head == Alloc(h)
    IN [nodes |-> [h EXCEPT ![head] = Node_head], sl |-> [len |-> 0, head |-> head]]

\* for (k, v) in self.iter() { new_list.insert(k.clone(), v.clone()); }
\* rs[j] is the random sample of the j-th insert
RECURSIVE clone_loop(_, _, _, _, _)
clone_loop(h, cursor, new_list, rs, j) ==
    LET n == Iter_next(h, cursor) IN
    IF n.item = <<>> THEN [nodes |-> h, sl |-> new_list]
    ELSE LET ins == insert(h, new_list, n.item[1][1], n.item[1][2], rs[j])
         IN clone_loop(ins.nodes, n.cursor, ins.sl, rs, j + 1)

\* Mutant: the clone's head takes over the source's links (a field-wise copy).
clone_shallow(h, sl, rs) ==
    LET c == SkipList_new(h)
    IN [nodes |-> [c.nodes EXCEPT ![c.sl.head].forward = h[sl.head].forward],
        sl |-> [c.sl EXCEPT !.len = sl.len]]

clone(h, sl, rs) ==
    LET c == SkipList_new(h)
    IN clone_loop(c.nodes, iter(c.nodes, sl), c.sl, rs, 1)

\* Mutant: only the head is deallocated.
drop_head_only(h, node) == Free(h, node)

\* while let Some(next) = node.forward[0] { free(node); node = next } free(node)
RECURSIVE drop(_, _)
drop(h, node) ==
    LET next_node == Fwd(h, node, 0) IN
    IF next_node # None THEN drop(Free(h, node), next_node) ELSE Free(h, node)

-----------------------------------------------------------------------------
\* The state machine

NoList == [len |-> 0, head |-> None]
NoShadow == [k \in Keys |-> <<>>]
NoIter == [kind |-> "none", list |-> 0, cursor |-> None, out |-> <<>>,
           done |-> FALSE, snap |-> NoShadow]
\* what the caller does with a &mut V: Some(value to write), or None (a read)
Writes == {<<>>} \cup {<<v>> : v \in Values}

\* a call: the operation, the container, the key passed (0: none), the value
\* returned, and, for the record, the len of the container when it was made
Call(op, l, key, ret, was) ==
    [op |-> op, list |-> l, key |-> key, ret |-> ret, was |-> was]

Init ==
    LET c == SkipList_new([n \in NodeIds |-> FreeNode])
    IN /\ nodes = c.nodes
       /\ lists = [l \in ListIds |-> IF l = 1 THEN c.sl ELSE NoList]
       /\ it = NoIter
       /\ last = Call("new", 1, 0, <<>>, 0)
       /\ shadow = [l \in ListIds |-> NoShadow]

Exists(l) == lists[l].head # None
\* the single thread of control: a call is made once the previous one returned
Idle == last.op = "idle"
\* the borrow checker: no call on a container while an iterator borrows it
Unborrowed(l) == Idle /\ Exists(l) /\ it.kind = "none"

\* the caller takes the value returned and goes on
Return ==
    /\ ~Idle
    /\ last' = Call("idle", 0, 0, <<>>, 0)
    /\ UNCHANGED <<nodes, lists, it, shadow>>

New(l) ==
    /\ Idle
    /\ ~Exists(l)
    /\ it.kind = "none"
    /\ HasFree(nodes)
    /\ LET c == SkipList_new(nodes)
       IN /\ nodes' = c.nodes
          /\ lists' = [lists EXCEPT ![l] = c.sl]
    /\ last' = Call("new", l, 0, <<>>, 0)
    /\ shadow' = [shadow EXCEPT ![l] = NoShadow]
    /\ UNCHANGED it

Insert(l) ==
    \E key \in Keys, value \in Values, r \in Draws :
        /\ Unborrowed(l)
        /\ HasFree(nodes)
        /\ LET res == insert(nodes, lists[l], key, value, r)
           IN /\ nodes' = res.nodes
              /\ lists' = [lists EXCEPT ![l] = res.sl]
              /\ last' = Call("insert", l, key, res.ret, len(lists[l]))
        /\ shadow' = [shadow EXCEPT ![l][key] = <<value>>]
        /\ UNCHANGED it

Remove(l) ==
    \E key \in Keys :
        /\ Unborrowed(l)
        /\ LET res == remove(nodes, lists[l], key)
           IN /\ nodes' = res.nodes
              /\ lists' = [lists EXCEPT ![l] = res.sl]
              /\ last' = Call("remove", l, key, res.ret, len(lists[l]))
        /\ shadow' = [shadow EXCEPT ![l][key] = <<>>]
        /\ UNCHANGED it

Get(l) ==
    \E key \in Keys :
        /\ Unborrowed(l)
        /\ last' = Call("get", l, key, get(nodes, lists[l], key), len(lists[l]))
        /\ UNCHANGED <<nodes, lists, it, shadow>>

GetMut(l) ==
    \E key \in Keys, w \in Writes :
        /\ Unborrowed(l)
        /\ LET place == get_mut(nodes, lists[l], key)
               wr == place # <<>> /\ w # <<>>
           IN /\ nodes' = IF wr THEN WriteValue(nodes, place[1], w[1]) ELSE nodes
              /\ last' = Call("get_mut", l, key,
                              IF place = <<>> THEN <<>> ELSE <<nodes[place[1]].data[1].value>>,
                              len(lists[l]))
              /\ shadow' = IF wr THEN [shadow EXCEPT ![l][key] = w] ELSE shadow
        /\ UNCHANGED <<lists, it>>

Clear(l) ==
    /\ Unborrowed(l)
    /\ LET res == clear(nodes, lists[l])
       IN /\ nodes' = res.nodes
          /\ lists' = [lists EXCEPT ![l] = res.sl]
    /\ last' = Call("clear", l, 0, <<>>, len(lists[l]))
    /\ shadow' = [shadow EXCEPT ![l] = NoShadow]
    /\ UNCHANGED it

\* impl Drop for SkipList
Drop(l) ==
    /\ Unborrowed(l)
    /\ nodes' = drop(nodes, lists[l].head)
    /\ lists' = [lists EXCEPT ![l] = NoList]
    /\ last' = Call("drop", l, 0, <<>>, len(lists[l]))
    /\ shadow' = [shadow EXCEPT ![l] = NoShadow]
    /\ UNCHANGED it

\* let it = list.iter();
IterStart(l) ==
    /\ Unborrowed(l)
    /\ it' = [NoIter EXCEPT !.kind = "iter", !.list = l,
                            !.cursor = iter(nodes, lists[l])]
    /\ last' = Call("iter", l, 0, <<>>, len(lists[l]))
    /\ UNCHANGED <<nodes, lists, shadow>>

\* it.next() on an Iter
IterNext ==
    /\ Idle
    /\ it.kind = "iter"
    /\ LET n == Iter_next(nodes, it.cursor)
       IN /\ it' = [it EXCEPT !.cursor = n.cursor, !.out = @ \o n.item,
                              !.done = (n.item = <<>>)]
          /\ last' = Call("next", it.list, 0, n.item, len(lists[it.list]))
    /\ UNCHANGED <<nodes, lists, shadow>>

\* let it = list.iter_mut();
IterMutStart(l) ==
    /\ Unborrowed(l)
    /\ it' = [NoIter EXCEPT !.kind = "iter_mut", !.list = l,
                            !.cursor = iter_mut(nodes, lists[l])]
    /\ last' = Call("iter_mut", l, 0, <<>>, len(lists[l]))
    /\ UNCHANGED <<nodes, lists, shadow>>

\* it.next() on an IterMut, and the caller's use of the &mut V it returns
IterMutNext ==
    \E w \in Writes :
        /\ Idle
        /\ it.kind = "iter_mut"
        /\ LET n == Iter_next(nodes, it.cursor)
               wr == n.item # <<>> /\ w # <<>>
           IN /\ it' = [it EXCEPT !.cursor = n.cursor, !.done = (n.item = <<>>)]
              /\ nodes' = IF wr THEN WriteValue(nodes, n.node, w[1]) ELSE nodes
              /\ last' = Call("next_mut", it.list, 0, n.item, len(lists[it.list]))
              /\ shadow' = IF wr THEN [shadow EXCEPT ![it.list][n.item[1][1]] = w]
                           ELSE shadow
        /\ UNCHANGED lists

\* the borrowing iterator goes out of scope
IterEnd ==
    /\ Idle
    /\ it.kind \in {"iter", "iter_mut"}
    /\ it' = NoIter
    /\ last' = Call("iter_end", it.list, 0, <<>>, len(lists[it.list]))
    /\ UNCHANGED <<nodes, lists, shadow>>

\* let it = list.into_iter(); the container moves into the IntoIter
IntoIterStart(l) ==
    /\ Unborrowed(l)
    /\ it' = [NoIter EXCEPT !.kind = "into_iter", !.list = l, !.snap = shadow[l]]
    /\ last' = Call("into_iter", l, 0, <<>>, len(lists[l]))
    /\ UNCHANGED <<nodes, lists, shadow>>

\* it.next() on an IntoIter: self.inner.pop_front()
IntoIterNext ==
    /\ Idle
    /\ it.kind = "into_iter"
    /\ LET res == pop_front(nodes, lists[it.list])
       IN /\ nodes' = res.nodes
          /\ lists' = [lists EXCEPT ![it.list] = res.sl]
          /\ it' = [it EXCEPT !.out = @ \o res.ret, !.done = (res.ret = <<>>)]
          /\ last' = Call("into_next", it.list, 0, res.ret, len(lists[it.list]))
          /\ shadow' = IF res.ret = <<>> THEN shadow
                       ELSE [shadow EXCEPT ![it.list][res.ret[1][1]] = <<>>]

\* the IntoIter goes out of scope, and with it the container it owns
IntoIterDrop ==
    /\ Idle
    /\ it.kind = "into_iter"
    /\ nodes' = drop(nodes, lists[it.list].head)
    /\ lists' = [lists EXCEPT ![it.list] = NoList]
    /\ it' = NoIter
    /\ last' = Call("into_drop", it.list, 0, <<>>, len(lists[it.list]))
    /\ shadow' = [shadow EXCEPT ![it.list] = NoShadow]

\* the pairs a traversal yields, as a map from keys to Option<value>
MapOf(items) ==
    [k \in Keys |->
        IF \E j \in 1..Len(items) : items[j][1] = k
        THEN <<(CHOOSE p \in {items[j] : j \in 1..Len(items)} : p[1] = k)[2]>>
        ELSE <<>>]

\* let copy = list.clone(); list 1 is cloned into list 2
\* rs: the random samples the inserts of the clone draw, in order
Clone ==
    \E rs \in [1..MaxKey -> Draws] :
        /\ Unborrowed(1)
        /\ ~Exists(2)
        /\ Cardinality({n \in NodeIds : ~nodes[n].live}) > len(lists[1])
        /\ LET res == clone(nodes, lists[1], rs)
           IN /\ nodes' = res.nodes
              /\ lists' = [lists EXCEPT ![2] = res.sl]
        /\ shadow' = [shadow EXCEPT ![2] = MapOf(collect(nodes, iter(nodes, lists[1])))]
        /\ last' = Call("clone", 1, 0, <<>>, len(lists[1]))
        /\ UNCHANGED it

Next ==
    \/ Return
    \/ New(1)
    \/ Insert(1)
    \/ Remove(1)
    \/ Get(1)
    \/ GetMut(1)
    \/ Clear(1)
    \/ Drop(1)
    \/ IterStart(1)
    \/ IterNext
    \/ IterMutStart(1)
    \/ IterMutNext
    \/ IterEnd
    \/ IntoIterStart(1)
    \/ IntoIterNext
    \/ IntoIterDrop

Spec == Init /\ [][Next]_vars

\* The runs with a clone: the source is list 1, its clone list 2
NextClone ==
    \/ Return
    \/ Clone
    \/ \E l \in ListIds : Insert(l)
    \/ \E l \in ListIds : Remove(l)
    \/ \E l \in ListIds : GetMut(l)
    \/ \E l \in ListIds : Clear(l)
    \/ Drop(2)

SpecClone == Init /\ [][NextClone]_vars

\* The runs that call only insert and remove (and look at the result with get)
NextInsertRemove ==
    \/ Return
    \/ Insert(1)
    \/ Remove(1)
    \/ Get(1)

SpecInsertRemove == Init /\ [][NextInsertRemove]_vars

\* The runs in which the caller goes on: it takes what a call returns, and
\* calls next() on the iterator it holds until it lets go of it
SpecTraversal ==
    /\ Spec
    /\ WF_vars(Return)
    /\ WF_vars(IterNext)
    /\ WF_vars(IterMutNext)
    /\ WF_vars(IntoIterNext)

-----------------------------------------------------------------------------
\* What the properties speak of

\* the step makes the call op
Calls(op) == last'.op = op
\* the pairs a map from keys to Option<value> holds, by ascending key
RECURSIVE PairsFrom(_, _)
PairsFrom(sh, k) ==
    IF k > MaxKey THEN <<>>
    ELSE (IF sh[k] = <<>> THEN <<>> ELSE << <<k, sh[k][1]>> >>) \o PairsFrom(sh, k + 1)
SortedPairs(sh) == PairsFrom(sh, 1)
\* a sequence of (key, value) pairs with strictly increasing keys
Increasing(out) == \A i \in 1..(Len(out) - 1) : out[i][1] < out[i + 1][1]
LiveNodes(h) == {n \in NodeIds : h[n].live}
\* two heaps with the same allocated nodes, links and keys (values may differ)
SameShape(h1, h2) ==
    \A n \in NodeIds :
        /\ h1[n].live = h2[n].live
        /\ h1[n].forward = h2[n].forward
        /\ Len(h1[n].data) = Len(h2[n].data)
        /\ h1[n].data # <<>> => h1[n].data[1].key = h2[n].data[1].key
\* the nodes whose value differs between two heaps of the same shape
ValueChanged(h1, h2) ==
    {n \in NodeIds : h1[n].data # <<>> /\ h1[n].data[1].value # h2[n].data[1].value}
\* the node holding key k, as the level-0 chain of the list shows it
RECURSIVE NodeOfFrom(_, _, _)
NodeOfFrom(h, n, k) ==
    IF n = None THEN None
    ELSE IF KeyEq(h, n, k) THEN n ELSE NodeOfFrom(h, Fwd(h, n, 0), k)
NodeOf(h, sl, k) == NodeOfFrom(h, Fwd(h, sl.head, 0), k)
\* the nodes a container owns: its head and every node a forward link at any
\* level leads to
RECURSIVE ReachFrom(_, _, _)
ReachFrom(h, frontier, seen) ==
    IF frontier = {} THEN seen
    ELSE LET n == CHOOSE x \in frontier : TRUE
             succ == {h[n].forward[i] : i \in DOMAIN h[n].forward} \ {None}
         IN ReachFrom(h, (frontier \cup succ) \ (seen \cup {n}), seen \cup {n})
NodesOf(h, sl) == IF sl.head = None THEN {} ELSE ReachFrom(h, {sl.head}, {})
\* the pairs a full ascending traversal of the container yields
Items(h, sl) == collect(h, iter(h, sl))

-----------------------------------------------------------------------------
\* C1, state part: get(k) is the value of the most recent insert of k that no
\* remove of k followed
C1_GetIsLastInsert == \A k \in Keys : get(nodes, lists[1], k) = shadow[1][k]
\* C1, step part: insert returns what the key held just before the call
C1_InsertReturnsPrevious ==
    Calls("insert") => last'.ret = shadow[1][last'.key]
\* C1: under insert and remove calls only, in every state get(k) returns the
\* value passed to the most recent insert of k not followed by a remove of k
\* (None if there is none), and insert(k, v) returns Some(that value) exactly
\* when k was present just before the call, None otherwise.
C1_InsertGet == []C1_GetIsLastInsert /\ [][C1_InsertReturnsPrevious]_vars
\* an insert over a present key has returned the previous value, and get
\* returns the new one
C1_Witness ==
    /\ last.op = "insert"
    /\ last.ret # <<>>
    /\ last.ret # shadow[1][last.key]
    /\ get(nodes, lists[1], last.key) = shadow[1][last.key]

C2_RemoveStep ==
    LET l == last'.list
        k == last'.key
    IN (Calls("remove") /\ shadow[l][k] # <<>>) =>
          /\ last'.ret = shadow[l][k]
          /\ last'.ret = get(nodes, lists[l], k)
          /\ len(lists'[l]) = len(lists[l]) - 1
          /\ get(nodes', lists'[l], k) = <<>>
          /\ \A j \in Keys \ {k} : get(nodes', lists'[l], j) = get(nodes, lists[l], j)
\* C2: remove(k) of a present key returns Some(the stored value), decrements
\* len by exactly one, makes get(k) None and leaves get of every other key as
\* it was.
C2_RemovePresent == [][C2_RemoveStep]_vars
\* a remove has returned a value while another key stays in the container
C2_Witness ==
    /\ last.op = "remove"
    /\ last.ret # <<>>
    /\ len(lists[1]) = 1
    /\ \E j \in Keys \ {last.key} : get(nodes, lists[1], j) # <<>>

C3_RemoveStep ==
    LET l == last'.list
        k == last'.key
    IN (Calls("remove") /\ shadow[l][k] = <<>>) =>
          /\ last'.ret = <<>>
          /\ nodes' = nodes
          /\ lists' = lists
\* C3: remove(k) of an absent key (also on an empty container) returns None
\* and changes neither len nor any link, key or value.
C3_RemoveAbsent == [][C3_RemoveStep]_vars
\* a remove of an absent key has returned None on a container that is not empty
C3_Witness ==
    /\ last.op = "remove"
    /\ last.ret = <<>>
    /\ len(lists[1]) > 0
    /\ shadow[1][last.key] = <<>>

C4_LenStep ==
    LET l == last'.list
        before == len(lists[l])
        after == len(lists'[l])
    IN /\ Calls("insert") => after = before + (IF last'.ret = <<>> THEN 1 ELSE 0)
       /\ (Calls("remove") \/ Calls("into_next")) =>
              /\ after = before - (IF last'.ret = <<>> THEN 0 ELSE 1)
              /\ last'.ret # <<>> => before > 0
       /\ Calls("clear") =>
              /\ after = before - (Cardinality(LiveNodes(nodes)) - Cardinality(LiveNodes(nodes')))
              /\ after = 0
       /\ Calls("new") => after = 0
       /\ last'.op \in {"get", "get_mut", "iter", "next", "iter_mut", "next_mut",
                         "iter_end", "into_iter"} => after = before
C4_NoUnderflow == \A l \in ListIds : len(lists[l]) >= 0
\* C4: len goes up by one with every insert that returns None, down by one
\* with every remove or pop_front that returns an entry, down by the number
\* of nodes it frees with clear, and stays as it is otherwise; it is never
\* decremented at 0.
C4_LenCounts == []C4_NoUnderflow /\ [][C4_LenStep]_vars
\* a pop_front has returned an entry and taken len from 2 to 1
C4_Witness ==
    /\ last.op = "into_next"
    /\ last.ret # <<>>
    /\ len(lists[1]) = 1
    /\ Len(it.out) = 1

C5_IterDone ==
    (it.kind = "iter" /\ it.done) =>
        /\ Len(it.out) = len(lists[it.list])
        /\ Increasing(it.out)
C5_IterFrame ==
    (Calls("iter") \/ Calls("next")) => (nodes' = nodes /\ lists' = lists)
\* C5: an Iter run until next() returns None has yielded exactly len entries
\* with strictly increasing keys, and no call on it changes len or any link,
\* key or value.
C5_IterAscending == []C5_IterDone /\ [][C5_IterFrame]_vars
\* an Iter over two entries is exhausted
C5_Witness ==
    /\ it.kind = "iter"
    /\ it.done
    /\ Len(it.out) = 2
    /\ len(lists[1]) = 2

C6_IntoIterDone ==
    (it.kind = "into_iter" /\ it.done) =>
        /\ it.out = SortedPairs(it.snap)
        /\ len(lists[it.list]) = 0
C6_IntoIterStep ==
    LET l == last'.list
        held == SortedPairs(shadow[l])
    IN Calls("into_next") =>
          /\ last'.ret = (IF held = <<>> THEN <<>> ELSE <<held[1]>>)
          /\ last'.ret # <<>> =>
                /\ len(lists'[l]) = len(lists[l]) - 1
                /\ get(nodes', lists'[l], held[1][1]) = <<>>
                /\ Items(nodes', lists'[l]) = Tail(held)
\* C6: an IntoIter run until next() returns None has yielded the pairs the
\* container held when it was consumed, by ascending key, and leaves len 0;
\* every next() that returns an entry returns the one of the smallest key,
\* removes it and decrements len by one.
C6_IntoIterSorted == []C6_IntoIterDone /\ [][C6_IntoIterStep]_vars
\* an IntoIter over two entries is exhausted
C6_Witness ==
    /\ it.kind = "into_iter"
    /\ it.done
    /\ Len(it.out) = 2

C7_ClearStep ==
    LET l == last'.list
        head == lists[l].head
        fresh == SkipList_new([n \in NodeIds |-> FreeNode])
    IN Calls("clear") =>
          /\ len(lists'[l]) = 0
          /\ is_empty(lists'[l])
          /\ Items(nodes', lists'[l]) = <<>>
          /\ lists'[l].head = head
          /\ nodes'[head] = Node_head
          /\ nodes' = fresh.nodes
          /\ lists'[l] = fresh.sl
\* C7: clear() leaves len 0, is_empty() true and an empty traversal, keeps the
\* head sentinel where it was, and leaves the container in the state new()
\* builds (a head with MAX_LEVEL empty slots and no entry node), so that what
\* follows behaves as on a new container.
C7_ClearIsFresh == [][C7_ClearStep]_vars
\* a clear has emptied a container that held two entries
C7_Witness ==
    /\ last.op = "clear"
    /\ last.was = 2
    /\ len(lists[1]) = 0
    /\ shadow[1] = NoShadow
    /\ LiveNodes(nodes) = {lists[1].head}

C8_CloneStep ==
    Calls("clone") =>
        /\ len(lists'[2]) = len(lists[1])
        /\ Items(nodes', lists'[2]) = Items(nodes, lists[1])
        /\ Items(nodes', lists'[2]) = SortedPairs(shadow[1])
        /\ lists'[1] = lists[1]
        /\ \A n \in NodesOf(nodes, lists[1]) : nodes'[n] = nodes[n]
C8_OtherUntouched ==
    LET l == last'.list
    IN \A o \in ListIds \ {l} :
          (last'.op \in {"insert", "remove", "get_mut", "clear"} /\ Exists(o)) =>
              /\ lists'[o] = lists[o]
              /\ \A n \in NodesOf(nodes, lists[o]) : nodes'[n] = nodes[n]
              /\ Items(nodes', lists'[o]) = Items(nodes, lists[o])
C8_NoSharedNode ==
    /\ NodesOf(nodes, lists[1]) \cap NodesOf(nodes, lists[2]) = {}
    /\ \A l \in ListIds : NodesOf(nodes, lists[l]) \subseteq LiveNodes(nodes)
\* C8: clone() yields a container with the len and the ascending sequence of
\* pairs of its source, whatever levels its nodes draw, and leaves the
\* source as it was; the two containers share no node, and an insert,
\* remove, get_mut write or clear on one of them leaves the len, the nodes
\* and the pairs of the other unchanged.
C8_CloneIndependent ==
    []C8_NoSharedNode /\ [][C8_CloneStep /\ C8_OtherUntouched]_vars
\* the source has changed after the clone was taken and the clone, which has
\* a node above level 0, has not
C8_Witness ==
    /\ Exists(1) /\ Exists(2)
    /\ last.op \in {"insert", "remove", "get_mut", "clear"}
    /\ last.list = 1
    /\ len(lists[2]) = 2
    /\ Items(nodes, lists[2]) = SortedPairs(shadow[2])
    /\ Items(nodes, lists[1]) # Items(nodes, lists[2])
    /\ \E n \in NodesOf(nodes, lists[2]) : level(nodes[n]) > 0 /\ nodes[n].data # <<>>

C9_InsertStep ==
    LET l == last'.list
        k == last'.key
    IN (Calls("insert") /\ shadow[l][k] # <<>>) =>
          /\ lists' = lists
          /\ SameShape(nodes, nodes')
          /\ ValueChanged(nodes, nodes') \subseteq {NodeOf(nodes, lists[l], k)}
          /\ nodes'[NodeOf(nodes, lists[l], k)].data[1].value = shadow'[l][k][1]
\* C9: insert(k, v) over a present key changes the value of the node holding
\* k and nothing else: the same nodes are allocated, every link and key is
\* as before, len is unchanged.
C9_InsertInPlace == [][C9_InsertStep]_vars
\* an insert over a present key has changed its value, next to another entry
C9_Witness ==
    /\ last.op = "insert"
    /\ last.ret # <<>>
    /\ len(lists[1]) = 2
    /\ nodes[NodeOf(nodes, lists[1], last.key)].data[1].value # last.ret[1]

C10_Presence ==
    \A l \in ListIds : Exists(l) =>
        \A k \in Keys :
            /\ get(nodes, lists[l], k) = shadow[l][k]
            /\ (get_mut(nodes, lists[l], k) # <<>>) = (shadow[l][k] # <<>>)
            /\ get_mut(nodes, lists[l], k) # <<>> =>
                    get_mut(nodes, lists[l], k) = <<NodeOf(nodes, lists[l], k)>>
C10_WriteStep ==
    LET l == last'.list
    IN /\ (Calls("get") \/ Calls("get_mut") \/ Calls("next_mut")) =>
              /\ lists' = lists
              /\ SameShape(nodes, nodes')
              /\ \A k \in Keys : get(nodes', lists'[l], k) = shadow'[l][k]
              /\ \A n \in ValueChanged(nodes, nodes') :
                    /\ shadow'[l][nodes[n].data[1].key] # shadow[l][nodes[n].data[1].key]
                    /\ Cardinality(ValueChanged(nodes, nodes')) = 1
       /\ Calls("get") => nodes' = nodes
       /\ (Calls("get_mut") /\ shadow[l][last'.key] = <<>>) =>
              (last'.ret = <<>> /\ nodes' = nodes)
\* C10: get and get_mut return Some exactly for the keys present (None, and
\* no fault, for the others, also on an empty container) and agree; neither
\* changes len, links or keys; a value written through get_mut or IterMut
\* changes the value of that entry only, and get returns it afterwards.
C10_GetAndWrite == []C10_Presence /\ [][C10_WriteStep]_vars
\* a value written through get_mut is in place
C10_Witness ==
    /\ last.op = "get_mut"
    /\ last.ret # <<>>
    /\ last.ret # shadow[1][last.key]
    /\ get(nodes, lists[1], last.key) = shadow[1][last.key]

-----------------------------------------------------------------------------
\* The shape of the heap

\* the nodes met by following index-i links from node n, n included; the walk
\* gives up after fuel nodes, so that a chain longer than the heap shows a cycle
RECURSIVE ChainFrom(_, _, _, _)
ChainFrom(h, n, i, fuel) ==
    IF n = None \/ fuel = 0 THEN <<>>
    ELSE <<n>> \o ChainFrom(h, Fwd(h, n, i), i, fuel - 1)
\* the level-i chain of a container, the head sentinel left out
Chain(h, sl, i) == ChainFrom(h, Fwd(h, sl.head, i), i, NumNodes + 1)
Range(s) == {s[j] : j \in 1..Len(s)}
\* the key a node holds (0, below every key, for a node without an entry)
KeyOf(h, n) == IF h[n].data = <<>> THEN 0 ELSE h[n].data[1].key
\* a chain of allocated entry nodes with strictly ascending keys
AscendingChain(h, c) ==
    /\ \A j \in 1..Len(c) : h[c[j]].live /\ h[c[j]].data # <<>>
    /\ \A j \in 1..(Len(c) - 1) : KeyOf(h, c[j]) < KeyOf(h, c[j + 1])
\* the entry nodes of the one container of the heap: every allocated node
\* but its head
EntryNodes(h, sl) == LiveNodes(h) \ {sl.head}

\* C11: while the container exists, the index-0 links from the head visit
\* every allocated entry node exactly once and no other node, by strictly
\* ascending key; no two entry nodes hold the same key.
C11_Level0Chain ==
    Exists(1) =>
        LET c == Chain(nodes, lists[1], 0)
        IN /\ Len(c) <= NumNodes
           /\ AscendingChain(nodes, c)
           /\ Range(c) = EntryNodes(nodes, lists[1])
           /\ Cardinality(Range(c)) = Len(c)
           /\ \A n, m \in EntryNodes(nodes, lists[1]) :
                  KeyOf(nodes, n) = KeyOf(nodes, m) => n = m
\* an insert has put a node in front of another one
C11_Witness ==
    /\ last.op = "insert"
    /\ last.ret = <<>>
    /\ Len(Chain(nodes, lists[1], 0)) = 2
    /\ KeyOf(nodes, Chain(nodes, lists[1], 0)[1]) = last.key


\* the nodes of a chain that span level i and above
Spanning(h, c, i) == SelectSeq(c, LAMBDA n : level(h[n]) >= i)
C12_LevelChain(i) ==
    LET c0 == Chain(nodes, lists[1], 0)
        c == Chain(nodes, lists[1], i)
    IN /\ Len(c) <= NumNodes
       /\ AscendingChain(nodes, c)
       /\ Cardinality(Range(c)) = Len(c)
       /\ Range(c) = {n \in EntryNodes(nodes, lists[1]) : level(nodes[n]) >= i}
       /\ c = Spanning(nodes, c0, i)
\* every slot i of the head and of a node of the level-0 chain holds the next
\* node of that chain that spans level i, or None for want of one
C12_NextSpanning(i) ==
    LET c0 == Chain(nodes, lists[1], 0)
        after(j) == Spanning(nodes, SubSeq(c0, j + 1, Len(c0)), i)
        slot(j) == IF j = 0 THEN Fwd(nodes, lists[1].head, i) ELSE Fwd(nodes, c0[j], i)
    IN \A j \in 0..Len(c0) :
           (j = 0 \/ level(nodes[c0[j]]) >= i) =>
               slot(j) = (IF after(j) = <<>> THEN None ELSE after(j)[1])
\* C12: while the container exists, for every level i above 0 the index-i
\* chain from the head is the level-0 chain restricted to the nodes whose
\* level is at least i: strictly ascending, exactly the allocated entry
\* nodes of level i and above, each link leading to the next such node.
C12_Subsequence ==
    Exists(1) =>
        \A i \in 1..(MAX_LEVEL - 1) : C12_LevelChain(i) /\ C12_NextSpanning(i)
\* the level-1 chain skips the first entry node and holds the second
C12_Witness ==
    /\ Exists(1)
    /\ Len(Chain(nodes, lists[1], 0)) = 2
    /\ Chain(nodes, lists[1], 1) = <<Chain(nodes, lists[1], 0)[2]>>


\* C13: in every reachable state the len field of a container is the number
\* of entry nodes the index-0 links lead to from its head.
C13_LenIsCount ==
    \A l \in ListIds : Exists(l) =>
        /\ len(lists[l]) = Len(Chain(nodes, lists[l], 0))
        /\ len(lists[l]) = Cardinality(NodesOf(nodes, lists[l]) \ {lists[l].head})
        /\ is_empty(lists[l]) = (Fwd(nodes, lists[l].head, 0) = None)
\* a consuming traversal has taken one of two entries: one node is left
C13_Witness ==
    /\ it.kind = "into_iter"
    /\ Len(it.out) = 1
    /\ len(lists[1]) = 1
    /\ Len(Chain(nodes, lists[1], 0)) = 1


\* the slots <<n, i>> of allocated nodes that refer to node p
SlotsTo(h, p) ==
    {<<n, i>> \in LiveNodes(h) \X (0..(MAX_LEVEL - 1)) :
        i \in DOMAIN h[n].forward /\ h[n].forward[i] = p}
\* no slot of an allocated node refers to a node that is not allocated
NoDangling(h) ==
    \A n \in LiveNodes(h) : \A i \in DOMAIN h[n].forward :
        h[n].forward[i] # None => h[h[n].forward[i]].live
C14_RemoveStep ==
    LET l == last'.list
        del_node == NodeOf(nodes, lists[l], last'.key)
    IN (Calls("remove") /\ last'.ret # <<>>) =>
          /\ del_node # None
          /\ ~nodes'[del_node].live
          /\ LiveNodes(nodes') = LiveNodes(nodes) \ {del_node}
          /\ SlotsTo(nodes', del_node) = {}
          /\ {s[2] : s \in SlotsTo(nodes, del_node)} = 0..level(nodes[del_node])
          /\ Cardinality(SlotsTo(nodes, del_node)) = level(nodes[del_node]) + 1
          /\ \A n \in LiveNodes(nodes') : \A i \in DOMAIN nodes[n].forward :
                 nodes'[n].forward[i] =
                     (IF nodes[n].forward[i] = del_node
                      THEN nodes[del_node].forward[i]
                      ELSE nodes[n].forward[i])
\* C14: a remove that returns an entry deallocates the node that held it and
\* leaves no slot of the head or of a remaining node referring to it: the
\* slots that referred to it, one at each of the levels 0..=its level, now
\* hold its own successor at that level, and every other slot is as before;
\* no slot of an allocated node ever refers to a deallocated one.
C14_NoDanglingLink == [](NoDangling(nodes)) /\ [][C14_RemoveStep]_vars
\* a remove has taken the first of two entries; the head leads to the other
\* one at every level
C14_Witness ==
    /\ last.op = "remove"
    /\ last.ret # <<>>
    /\ Len(Chain(nodes, lists[1], 0)) = 1
    /\ last.key < KeyOf(nodes, Chain(nodes, lists[1], 0)[1])
    /\ \A i \in 0..(MAX_LEVEL - 1) :
           Fwd(nodes, lists[1].head, i) = Chain(nodes, lists[1], 0)[1]


\* the chains of a container of heap h are in order at every level
ChainsInOrder(h, sl) ==
    LET c0 == Chain(h, sl, 0)
    IN /\ Len(c0) <= NumNodes
       /\ AscendingChain(h, c0)
       /\ Range(c0) = EntryNodes(h, sl)
       /\ \A i \in 0..(MAX_LEVEL - 1) : Chain(h, sl, i) = Spanning(h, c0, i)
HeadSlotsEmpty(h, sl) ==
    /\ DOMAIN h[sl.head].forward = 0..(MAX_LEVEL - 1)
    /\ \A i \in 0..(MAX_LEVEL - 1) : h[sl.head].forward[i] = None
\* a pop_front on heap h that returned an entry and left p
PopFrontRelinks(h, sl, p) ==
    LET del_node == Fwd(h, sl.head, 0)
    IN /\ del_node # None
       /\ ~p.nodes[del_node].live
       /\ LiveNodes(p.nodes) = LiveNodes(h) \ {del_node}
       /\ p.sl.head = sl.head
       /\ SlotsTo(p.nodes, del_node) = {}
       /\ \A i \in 0..(MAX_LEVEL - 1) : Fwd(p.nodes, sl.head, i) # del_node
       /\ \A i \in 0..(MAX_LEVEL - 1) :
              Fwd(p.nodes, sl.head, i) =
                  (IF i <= level(h[del_node]) THEN Fwd(h, del_node, i)
                   ELSE Fwd(h, sl.head, i))
       /\ ChainsInOrder(p.nodes, p.sl)
\* the pop_front calls of a clear, each with the state it starts from
RECURSIVE ClearPops(_, _)
ClearPops(h, sl) ==
    IF is_empty(sl) THEN <<>>
    ELSE LET p == pop_front(h, sl)
         IN <<[from |-> [nodes |-> h, sl |-> sl], to |-> p]>> \o ClearPops(p.nodes, p.sl)
C15_PopStep ==
    LET l == last'.list
    IN (Calls("into_next") /\ last'.ret # <<>>) =>
          PopFrontRelinks(nodes, lists[l], [nodes |-> nodes', sl |-> lists'[l]])
C15_ClearStep ==
    LET l == last'.list
        pops == ClearPops(nodes, lists[l])
    IN Calls("clear") =>
          /\ Len(pops) = len(lists[l])
          /\ \A j \in 1..Len(pops) :
                 /\ pops[j].to.ret # <<>>
                 /\ PopFrontRelinks(pops[j].from.nodes, pops[j].from.sl, pops[j].to)
          /\ HeadSlotsEmpty(nodes', lists'[l])
C15_Exhausted ==
    (it.kind = "into_iter" /\ it.done) => HeadSlotsEmpty(nodes, lists[it.list])
\* C15: every pop_front that returns an entry, whether a next() of an IntoIter
\* or a step of clear(), deallocates the first node, leaves no slot of the
\* head (or of any node) referring to it, the head's slots up to the node's
\* level holding the node's successors, and the chains in order at every
\* level; after clear() and after an exhausted consuming traversal all
\* MAX_LEVEL slots of the head are empty.
C15_PopFrontRelinks ==
    []C15_Exhausted /\ [][C15_PopStep /\ C15_ClearStep]_vars
\* a consuming next() has taken the first of two entries, and the head leads
\* to the one left at level 1 too
C15_Witness ==
    /\ last.op = "into_next"
    /\ last.ret # <<>>
    /\ Len(it.out) = 1
    /\ Len(Chain(nodes, lists[1], 0)) = 1
    /\ Chain(nodes, lists[1], 1) = Chain(nodes, lists[1], 0)


\* node.forward[i] is a slot of an allocated node
InBounds(h, n, i) == n \in NodeIds /\ h[n].live /\ i \in DOMAIN h[n].forward
\* the nodes whose slot i the while loop of the search reads, from cur on
RECURSIVE Visited(_, _, _, _)
Visited(h, cur, i, key) ==
    LET next_node == Fwd(h, cur, i) IN
    IF next_node # None /\ KeyLess(h, next_node, key)
    THEN {cur} \cup Visited(h, next_node, i, key)
    ELSE {cur}
\* the search for key, which leaves upd in update_nodes, reads slots that
\* exist, of nodes that are allocated, and looks for a key in allocated nodes
SearchInBounds(h, sl, key, upd) ==
    LET start(i) == IF i = MAX_LEVEL - 1 THEN sl.head ELSE upd[i + 1]
    IN /\ DOMAIN upd = 0..(MAX_LEVEL - 1)
       /\ \A i \in 0..(MAX_LEVEL - 1) :
              \A n \in Visited(h, start(i), i, key) :
                  /\ InBounds(h, n, i)
                  /\ h[n].forward[i] # None => h[h[n].forward[i]].live
       /\ InBounds(h, upd[0], 0)
\* for i in 0..=new_level: update_nodes[i], update_nodes[i].forward[i] and
\* new_node.forward[i] exist
SpliceInBounds(h, upd, new_level) ==
    \A i \in 0..new_level :
        /\ i \in DOMAIN upd
        /\ InBounds(h, upd[i], i)
        /\ i \in DOMAIN Node_new(<<>>, new_level).forward
\* for i in 0..MAX_LEVEL: update_nodes[i].forward[i] exists, and so does
\* del_node.forward[i] wherever the loop goes on to read it
UnlinkInBounds(h, key, upd) ==
    LET del_node == Fwd(h, upd[0], 0)
    IN (del_node # None /\ KeyEq(h, del_node, key)) =>
           \A i \in 0..(MAX_LEVEL - 1) :
               (\A j \in 0..i : Fwd(h, upd[j], j) = del_node) =>
                   InBounds(h, upd[i], i) /\ InBounds(h, del_node, i)
\* for level in 0..=del_node.level(): head.forward[level] exists
PopFrontInBounds(h, sl) ==
    LET del_node == Fwd(h, sl.head, 0)
    IN /\ InBounds(h, sl.head, 0)
       /\ del_node # None =>
              /\ h[del_node].live
              /\ h[del_node].data # <<>>
              /\ \A lvl \in 0..level(h[del_node]) :
                     InBounds(h, sl.head, lvl) /\ InBounds(h, del_node, lvl)
C16_LevelInRange ==
    \A r \in 0..(MAX_LEVEL + MaxDraw) : random_level(r) \in 0..(MAX_LEVEL - 1)
C16_SlotCounts ==
    Exists(1) =>
        /\ DOMAIN nodes[lists[1].head].forward = 0..(MAX_LEVEL - 1)
        /\ level(nodes[lists[1].head]) = MAX_LEVEL - 1
        /\ \A n \in EntryNodes(nodes, lists[1]) :
               /\ level(nodes[n]) \in 0..(MAX_LEVEL - 1)
               /\ DOMAIN nodes[n].forward = 0..level(nodes[n])
\* the node an insert allocates has as many slots as the level drawn, plus one
C16_InsertStep ==
    (Calls("insert") /\ last'.ret = <<>>) =>
        /\ LiveNodes(nodes') = LiveNodes(nodes) \cup {Alloc(nodes)}
        /\ \E r \in Draws :
               /\ nodes' = insert(nodes, lists[last'.list], last'.key,
                                  shadow'[last'.list][last'.key][1], r).nodes
               /\ DOMAIN nodes'[Alloc(nodes)].forward = 0..random_level(r)
C16_Accesses ==
    /\ Exists(1) =>
           /\ \A key \in Keys :
                  LET upd == update_nodes(nodes, lists[1].head, key)
                  IN /\ SearchInBounds(nodes, lists[1], key, upd)
                     /\ UnlinkInBounds(nodes, key, upd)
                     /\ \A r \in Draws : SpliceInBounds(nodes, upd, random_level(r))
           /\ PopFrontInBounds(nodes, lists[1])
           /\ \A n \in Range(Chain(nodes, lists[1], 0)) : InBounds(nodes, n, 0)
    /\ (it.kind \in {"iter", "iter_mut"} /\ it.cursor # None) =>
           InBounds(nodes, it.cursor, 0) /\ nodes[it.cursor].data # <<>>
\* the slot count of a node does not change as long as it stays allocated
C16_CountsKept ==
    \A n \in LiveNodes(nodes) \cap LiveNodes(nodes') :
        DOMAIN nodes'[n].forward = DOMAIN nodes[n].forward
\* C16: random_level returns a level in 0..=MAX_LEVEL-1 whatever is drawn; the
\* head has MAX_LEVEL slots, an entry node its level + 1, the level being the
\* one drawn when it was inserted, and a count never changes while the node
\* is allocated; the search, the splice of insert, the unlink of remove, the
\* relink of pop_front and the traversals index only slots that exist, in
\* nodes that are allocated, and update_nodes within its MAX_LEVEL elements.
C16_InBounds ==
    [](C16_LevelInRange /\ C16_SlotCounts /\ C16_Accesses)
        /\ [][C16_InsertStep /\ C16_CountsKept]_vars
\* an insert has put a node that spans every level behind one of level 0
C16_Witness ==
    /\ last.op = "insert"
    /\ last.ret = <<>>
    /\ Len(Chain(nodes, lists[1], 0)) = 2
    /\ KeyOf(nodes, Chain(nodes, lists[1], 0)[2]) = last.key
    /\ level(nodes[Chain(nodes, lists[1], 0)[1]]) = 0
    /\ level(nodes[Chain(nodes, lists[1], 0)[2]]) = MAX_LEVEL - 1


\* the nodes the loop of drop hands to Box::from_raw, in order, each with
\* whether it was still allocated at that moment
RECURSIVE DropFrees(_, _)
DropFrees(h, node) ==
    LET next_node == Fwd(h, node, 0)
        freed == <<[node |-> node, live |-> h[node].live]>>
    IN IF next_node # None THEN freed \o DropFrees(Free(h, node), next_node)
       ELSE freed
C17_DropStep ==
    LET l == last'.list
        head == lists[l].head
        frees == DropFrees(nodes, head)
        freed == {frees[j].node : j \in 1..Len(frees)}
    IN (Calls("drop") \/ Calls("into_drop")) =>
          /\ nodes' = drop(nodes, head)
          /\ \A j \in 1..Len(frees) : frees[j].live
          /\ Cardinality(freed) = Len(frees)
          /\ Len(frees) = len(lists[l]) + 1
          /\ head \in freed
          /\ freed = NodesOf(nodes, lists[l])
          /\ freed = LiveNodes(nodes)
          /\ LiveNodes(nodes') = LiveNodes(nodes) \ freed
          /\ lists'[l] = NoList
\* with no container left, no node is allocated
C17_NothingLeft == (\A l \in ListIds : ~Exists(l)) => LiveNodes(nodes) = {}
\* C17: the drop of a container, or of an IntoIter with the entries it has
\* not consumed, hands the head and every entry node of the level-0 chain to
\* the allocator exactly once: each of them is allocated when it is freed
\* (none was freed before, by remove or pop_front), none is freed twice, and
\* no allocated node is left.
C17_DropFreesAll == []C17_NothingLeft /\ [][C17_DropStep]_vars
\* an IntoIter that still held an entry has been dropped
C17_Witness ==
    /\ last.op = "into_drop"
    /\ last.was = 1
    /\ ~Exists(1)
    /\ LiveNodes(nodes) = {}


C18_HeadState ==
    \A l \in ListIds : Exists(l) =>
        /\ nodes[lists[l].head].live
        /\ nodes[lists[l].head].data = <<>>
        /\ DOMAIN nodes[lists[l].head].forward = 0..(MAX_LEVEL - 1)
        /\ SlotsTo(nodes, lists[l].head) = {}
        /\ \A n \in NodesOf(nodes, lists[l]) \ {lists[l].head} : nodes[n].data # <<>>
C18_HeadStep ==
    \A l \in ListIds :
        (Exists(l) /\ ~(last'.list = l /\ last'.op \in {"drop", "into_drop"})) =>
            /\ lists'[l].head = lists[l].head
            /\ nodes'[lists[l].head].live
            /\ nodes'[lists[l].head].data = <<>>
\* C18: from new() to the drop of the container its head is one and the same
\* allocated node: no insert, remove, pop_front or clear (nor any other call)
\* deallocates or replaces it; it holds no entry, every other node of the
\* container holds one, and no slot of any node at any level refers to it.
C18_HeadStable == []C18_HeadState /\ [][C18_HeadStep]_vars
\* a remove has taken the last entry, and the head is all that is allocated
C18_Witness ==
    /\ last.op = "remove"
    /\ last.ret # <<>>
    /\ len(lists[1]) = 0
    /\ LiveNodes(nodes) = {lists[1].head}
    /\ nodes[lists[1].head] = Node_head


\* the keys searched for: every key, one below them all and one above
Targets == 0..(MaxKey + 1)
\* n is the node of the set with the smallest key (None for the empty set)
IsFirstOf(h, n, set) ==
    IF set = {} THEN n = None
    ELSE n \in set /\ \A m \in set : KeyOf(h, n) <= KeyOf(h, m)
\* n is the node of the set with the largest key (the head for the empty set)
IsLastOf(h, n, set, head) ==
    IF set = {} THEN n = head
    ELSE n \in set /\ \A m \in set : KeyOf(h, m) <= KeyOf(h, n)
C19_SearchFinds(key) ==
    LET sl == lists[1]
        cur_node == find_node(nodes, sl.head, MAX_LEVEL - 1, key)
        upd == update_nodes(nodes, sl.head, key)
    IN /\ IsFirstOf(nodes, Fwd(nodes, cur_node, 0),
                    {n \in EntryNodes(nodes, sl) : KeyOf(nodes, n) >= key})
       /\ IsLastOf(nodes, cur_node,
                   {n \in EntryNodes(nodes, sl) : KeyOf(nodes, n) < key}, sl.head)
       /\ upd[0] = cur_node
       /\ \A i \in 0..(MAX_LEVEL - 1) :
              IsLastOf(nodes, upd[i],
                       {n \in Range(Chain(nodes, sl, i)) : KeyOf(nodes, n) < key},
                       sl.head)
\* C19: in every reachable state of the container and for every key searched
\* for, the search of get and get_mut ends on the node whose level-0
\* successor is the entry node of the smallest key >= the target (None if
\* there is none), and update_nodes[i] of insert and remove is, at every level
\* i, the last node of the level-i chain with a key < the target, or the head.
C19_SearchCorrect == Exists(1) => \A key \in Targets : C19_SearchFinds(key)
\* a get has found the second of two entries: the search stays on the head
\* at level 1 and moves to the first entry at level 0
C19_Witness ==
    /\ last.op = "get"
    /\ last.ret # <<>>
    /\ LET c0 == Chain(nodes, lists[1], 0)
           upd == update_nodes(nodes, lists[1].head, last.key)
       IN /\ Len(c0) = 2
          /\ KeyOf(nodes, c0[2]) = last.key
          /\ upd[MAX_LEVEL - 1] = lists[1].head
          /\ upd[0] = c0[1]
          /\ find_node(nodes, lists[1].head, MAX_LEVEL - 1, last.key) = c0[1]


\* every link leads from an allocated node to an allocated node of a larger
\* key (the head counting as the smallest): no walk along links comes back
C20_KeysGrow ==
    \A n \in LiveNodes(nodes) : \A i \in DOMAIN nodes[n].forward :
        nodes[n].forward[i] # None =>
            /\ nodes[nodes[n].forward[i]].live
            /\ KeyOf(nodes, n) < KeyOf(nodes, nodes[n].forward[i])
C20_Acyclic ==
    \A n \in LiveNodes(nodes) : \A i \in 0..(MAX_LEVEL - 1) :
        LET c == ChainFrom(nodes, n, i, NumNodes + 1)
        IN Len(c) <= NumNodes /\ Cardinality(Range(c)) = Len(c)
\* at each level the search loop moves on at most len times
C20_SearchEnds ==
    Exists(1) =>
        \A key \in Targets :
            LET upd == update_nodes(nodes, lists[1].head, key)
                start(i) == IF i = MAX_LEVEL - 1 THEN lists[1].head ELSE upd[i + 1]
            IN \A i \in 0..(MAX_LEVEL - 1) :
                   Cardinality(Visited(nodes, start(i), i, key)) <= len(lists[1]) + 1
\* what is left of a borrowing traversal gets shorter with every entry it
\* yields, and it yields None when, and only when, nothing is left
C20_NextStep ==
    LET left == ChainFrom(nodes, it.cursor, 0, NumNodes + 1)
        left_after == ChainFrom(nodes', it'.cursor, 0, NumNodes + 1)
    IN (Calls("next") \/ Calls("next_mut")) =>
          /\ Len(left) <= len(lists[it.list])
          /\ (last'.ret = <<>>) = (left = <<>>)
          /\ last'.ret # <<>> => left_after = Tail(left)
          /\ last'.ret = <<>> => it'.cursor = None /\ it'.done
\* a consuming traversal yields None when, and only when, len is 0
C20_IntoNextStep ==
    LET l == last'.list
    IN Calls("into_next") =>
          /\ (last'.ret = <<>>) = (len(lists[l]) = 0)
          /\ last'.ret # <<>> => len(lists'[l]) = len(lists[l]) - 1
          /\ last'.ret = <<>> => it'.done
\* a traversal that has returned None returns None again, and changes nothing
C20_StaysNone ==
    (it.done /\ last'.op \in {"next", "next_mut", "into_next"}) =>
        /\ last'.ret = <<>>
        /\ it' = it
        /\ nodes' = nodes
        /\ lists' = lists
\* clear makes len calls of pop_front, drop frees len + 1 nodes
C20_ClearDropEnd ==
    LET l == last'.list
    IN /\ Calls("clear") =>
              /\ Len(ClearPops(nodes, lists[l])) = len(lists[l])
              /\ is_empty(lists'[l])
       /\ (Calls("drop") \/ Calls("into_drop")) =>
              Len(DropFrees(nodes, lists[l].head)) = len(lists[l]) + 1
\* a traversal the caller goes on with returns None in the end
C20_Exhausts == (it.kind # "none") ~> (it.done \/ it.kind = "none")
\* C20: the links are acyclic at every level, keys growing along every link,
\* so that every loop comes to its end: a search moves on at most len times
\* at a level, a traversal yields len entries at most and then None, clear
\* makes len calls of pop_front and drop frees len + 1 nodes; a traversal
\* that is not abandoned returns None in the end, and one that has returned
\* None keeps returning None.
C20_Terminates ==
    /\ [](C20_KeysGrow /\ C20_Acyclic /\ C20_SearchEnds)
    /\ [][C20_NextStep /\ C20_IntoNextStep /\ C20_StaysNone /\ C20_ClearDropEnd]_vars
    /\ C20_Exhausts
\* a traversal over two entries has come to its end and returned None
C20_Witness ==
    /\ it.kind = "iter_mut"
    /\ it.done
    /\ it.cursor = None
    /\ last.op = "next_mut"
    /\ last.ret = <<>>
    /\ len(lists[1]) = 2

=============================================================================
